---- MODULE Spec2Model ----
(***************************************************************************)
(* Model of AGOL_Backup_Feature_Services_CreateReplicaMethod_noattach.py:  *)
(* the incremental backup of hosted feature services.  One run of the      *)
(* script is a sequence of steps (read the item list, load the ledger of   *)
(* last successful backups, merge the fetched item info into it, export    *)
(* every stale item, move the archives, verify them and commit the         *)
(* successes to the ledger).  The ledger file and the folders under the    *)
(* download location are what one run leaves to the next.                  *)
(*                                                                         *)
(* A pandas DataFrame is a record [columns, rows]: rows is a sequence of   *)
(* functions from the column names to cells.  A missing cell is NaN (text  *)
(* columns) or NumNaN (numeric columns).  Item identifiers are numbers so  *)
(* that Index.difference can sort them; 0 is an identifier the portal does *)
(* not know.  Timestamps are milliseconds.  The portal reads (search,      *)
(* layer properties) are taken to succeed; the export, the folder          *)
(* operations and the CSV reads and writes can fail.                       *)
(***************************************************************************)
EXTENDS Integers, Sequences, FiniteSets, TLC

\* ------------------------------------------------------------- bounds
MaxRuns == 2
MaxCsvRows == 2
MaxFaults == 1
MaxLayers == 1
MaxTables == 0
MaxMergeRows == 2

ItemIds == {1, 2}
CsvIds == ItemIds \cup {0}
Titles == {"T1", "T2"}
EditTimes == {k * 1000 : k \in 1..MaxRuns}

RECURSIVE SeqsUpTo(_, _)
SeqsUpTo(S, n) ==
    IF n = 0 THEN {<<>>}
    ELSE LET shorter == SeqsUpTo(S, n - 1)
         IN shorter \cup {Append(s, x) : s \in shorter, x \in S}

\* an input list that names an item twice and another item after it
RepeatedInputs == {<<1, 1, 2>>}

CsvInputs == SeqsUpTo(CsvIds, MaxCsvRows) \cup RepeatedInputs
LayerInputs == SeqsUpTo(EditTimes, MaxLayers)
TableInputs == SeqsUpTo(EditTimes, MaxTables)

\* ------------------------------------------------------------- parameters
download_location == "D:"
successful_backups == "Last_Successful_Backup.csv"
success_log_csv_path == download_location \o "\\" \o successful_backups
run_log_folder == download_location \o "\\logs"

\* ------------------------------------------------------------- cells
NaN == "NaN"
NumNaN == 0 - 1
NumCols == {"updated_ts", "last_edit_date_ts", "backup_ts"}
ItemCols == {"item_id", "item_name", "item_title", "url", "updated_ts",
             "last_edit_date", "last_edit_date_ts"}
BackupCols == {"backup_date", "backup_ts", "zip_path"}
LedgerCols == ItemCols \cup BackupCols
RunCols == {"item_id", "item_name", "item_title", "zip_path", "status"}
NotYet == "Not yet backed up"

NA(c) == IF c \in NumCols THEN NumNaN ELSE NaN
isna(c, v) == v = NA(c)

EmptyDF == [columns |-> {}, rows |-> <<>>]
DataFrame(cols, rows) == [columns |-> cols, rows |-> rows]

\* ------------------------------------------------------------- general functions
stamp_to_text(ts) == "01/01/1970 00:00:0" \o ToString(ts \div 1000)

strftime(ts) == "19700101_00000" \o ToString(ts \div 1000)

index(df) == [p \in 1..Len(df.rows) |-> df.rows[p].item_id]

is_unique(s) == \A a, b \in 1..Len(s) : s[a] = s[b] => a = b

\* DataFrame.reindex_like(df) as df.update calls it on the updating frame:
\* a frame with repeated labels cannot be reindexed, unless its index already
\* equals the target's
reindex_raises(other, df) == index(other) # index(df) /\ ~is_unique(index(other))

reindex_cell(other, df, p, c) ==
    IF c \notin other.columns THEN NA(c)
    ELSE IF index(other) = index(df) THEN other.rows[p][c]
    ELSE IF \E q \in 1..Len(other.rows) : other.rows[q].item_id = df.rows[p].item_id
         THEN other.rows[CHOOSE q \in 1..Len(other.rows) :
                            other.rows[q].item_id = df.rows[p].item_id][c]
         ELSE NA(c)

\* a mask that lets a missing cell overwrite too
update_cell_overwrite(c, this, that) == that

\* the mask of DataFrame.update: a cell of the updating frame overwrites
\* unless it is missing
update_cell(c, this, that) == IF isna(c, that) THEN this ELSE that

df_update(df, other) ==
    DataFrame(df.columns,
        [p \in 1..Len(df.rows) |->
            [c \in df.columns |->
                IF c = "item_id" THEN df.rows[p][c]
                ELSE update_cell(c, df.rows[p][c], reindex_cell(other, df, p, c))]])

RECURSIVE sorted(_)
sorted(S) ==
    IF S = {} THEN <<>>
    ELSE LET m == CHOOSE x \in S : \A y \in S : x <= y
         IN <<m>> \o sorted(S \ {m})

\* every label of the updating frame, those of df included
index_difference_all(updating, df) ==
    sorted({index(updating)[p] : p \in 1..Len(updating.rows)})

index_difference(updating, df) ==
    sorted({index(updating)[p] : p \in 1..Len(updating.rows)}
           \ {index(df)[p] : p \in 1..Len(df.rows)})

RECURSIVE loc(_, _)
loc(df, labels) ==
    IF labels = <<>> THEN <<>>
    ELSE SelectSeq(df.rows, LAMBDA r : r.item_id = Head(labels)) \o loc(df, Tail(labels))

widen(r, cols) == [c \in cols |-> IF c \in DOMAIN r THEN r[c] ELSE NA(c)]

df_append(df, rows, cols) ==
    LET all == df.columns \cup cols
    IN DataFrame(all,
           [p \in 1..Len(df.rows) |-> widen(df.rows[p], all)]
           \o [p \in 1..Len(rows) |-> widen(rows[p], all)])

\* update_df: raised tells whether df.update raised; df is the first argument
\* as the in-place update leaves it; updated_df is the returned frame
update_df(df, updating_df) ==
    LET updated == df_update(df, updating_df)
    IN [raised |-> reindex_raises(updating_df, df),
        df |-> updated,
        updated_df |-> df_append(updated,
                                 loc(updating_df, index_difference(updating_df, df)),
                                 updating_df.columns)]

\* ------------------------------------------------------------- state
VARIABLES
    pc,                 \* where the script is: idle, load, classify, export, move, logs, done, crashed, exited
    run,                \* runs started so far
    ts_today,           \* the run's start timestamp in ms
    full_backup,        \* the parameter, forced on when the ledger cannot be read
    titles,             \* the portal's title of every item
    item_csv,           \* the identifiers read from the input CSV
    item_list,          \* the items the searches returned
    csv_file,           \* the ledger file: [exists, df]
    success_log_exists,
    success_log_df,     \* the in-memory ledger
    items_df,           \* the item info fetched in this run
    saved,              \* what the last export_df of the ledger returned in this run
    stale_list,
    dirs,               \* per title, the working folder backups\<title>\<date_today>: [exists, files]
    zips,               \* per title, the file at backups\<title>\<title>_<date_today>.zip: absent, zip or junk
    log_folder,         \* whether the logs folder exists
    error_log,          \* whether this run wrote an error record
    run_log,            \* whether this run's run log file was written
    i,                  \* position of the loops over item_list
    run_df,             \* the run log frame
    faults,             \* environment failures met so far
    ledger0,            \* the ledger file as it was when the run started
    attempted,          \* positions of item_list whose export was invoked in this run
    raised,             \* positions of item_list whose export raised in this run
    archived,           \* per item, its last verified archive: [edit, ts], the last edit it holds
                        \* (NumNaN: it is not of the item's own export) and the start of its run
    merge               \* update_df applied on its own: [step, df, updating_df, once, twice]

vars == <<pc, run, ts_today, full_backup, titles, item_csv, item_list, csv_file,
          success_log_exists, success_log_df, items_df, saved, stale_list, dirs, zips,
          log_folder, error_log, run_log, i, run_df, faults, ledger0, attempted, raised,
          archived, merge>>

date_today == strftime(ts_today)

\* datetime.now() of the k-th run, in ms: the runs start one second apart
now(k) == k * 1000

NoFile == [exists |-> FALSE, df |-> EmptyDF]
NoDir == [exists |-> FALSE, files |-> <<>>]

\* ------------------------------------------------------------- the portal
Item(id) ==
    [id |-> id,
     name |-> "svc" \o ToString(id),
     title |-> titles[id],
     url |-> "https://services/" \o ToString(id) \o "/FeatureServer",
     modified |-> 100 * id]

search(id) == IF id \in ItemIds THEN <<Item(id)>> ELSE <<>>

RECURSIVE chain(_)
chain(ids) == IF ids = <<>> THEN <<>> ELSE search(Head(ids)) \o chain(Tail(ids))

RECURSIVE lastEditDate(_, _)
lastEditDate(props, acc) ==
    IF props = <<>> THEN acc
    ELSE lastEditDate(Tail(props), IF Head(props) >= acc THEN Head(props) ELSE acc)

item_info(item, layers, tables) ==
    LET last_edit_date_ts ==
            IF Len(layers) + Len(tables) > 0
            THEN lastEditDate(tables, lastEditDate(layers, 0))
            ELSE 0
    IN [item_id |-> item.id,
        item_name |-> item.name,
        item_title |-> item.title,
        url |-> item.url,
        updated_ts |-> item.modified,
        last_edit_date |-> stamp_to_text(last_edit_date_ts),
        last_edit_date_ts |-> last_edit_date_ts]

\* ------------------------------------------------------------- the files
to_csv(df) == [exists |-> TRUE, df |-> df]
read_csv(file) == file.df

\* export_df: the file after the call; written is whether to_csv succeeded
export_df(df, file, written) == IF written THEN to_csv(df) ELSE file

\* check_create_folder: whether the folder exists after the call
check_create_folder(exists, created) == exists \/ created

download_path(item) ==
    download_location \o "\\backups\\" \o item.title \o "\\" \o date_today

zip_path(item) ==
    download_location \o "\\backups\\" \o item.title \o "\\" \o item.title
        \o "_" \o date_today \o ".zip"

\* ------------------------------------------------------------- the ledger
\* a ledger made from items_df without the three inserted columns filled
new_success_log_bare(frame) ==
    DataFrame(LedgerCols,
        [p \in 1..Len(frame.rows) |-> widen(frame.rows[p], LedgerCols)])

\* lines 234-237: a ledger made from items_df
new_success_log(frame) ==
    DataFrame(LedgerCols,
        [p \in 1..Len(frame.rows) |->
            [c \in LedgerCols |->
                IF c \in ItemCols THEN frame.rows[p][c]
                ELSE IF c = "backup_ts" THEN 0
                ELSE NotYet]])

\* the query with <= for <
stale_query_inclusive(r) ==
    \/ (r.backup_ts # NumNaN /\ r.last_edit_date_ts # NumNaN
        /\ r.backup_ts <= r.last_edit_date_ts)
    \/ r.backup_ts = NumNaN

\* lines 244-245
stale_query(r) ==
    \/ (r.backup_ts # NumNaN /\ r.last_edit_date_ts # NumNaN
        /\ r.backup_ts < r.last_edit_date_ts)
    \/ r.backup_ts = NumNaN

stale_rows(df) == SelectSeq(df.rows, stale_query)

stale_ids(df) == [p \in 1..Len(stale_rows(df)) |-> stale_rows(df)[p].item_id]

InSeq(x, s) == \E p \in 1..Len(s) : s[p] = x

\* lines 256, 322, 376
in_processing_set(item) == full_backup \/ InSeq(item.id, stale_list)

\* ------------------------------------------------------------- Init
\* update_df not called
NoResult == [raised |-> FALSE, df |-> EmptyDF, updated_df |-> EmptyDF]

NoMerge == [step |-> "off", df |-> EmptyDF, updating_df |-> EmptyDF,
            once |-> NoResult, twice |-> NoResult]

\* the script not started, nothing on disk
Idle ==
    /\ pc = "idle"
    /\ run = 0
    /\ ts_today = 0
    /\ full_backup = FALSE
    /\ titles \in {t \in [ItemIds -> Titles] : t[1] = "T1"}
    /\ item_csv = <<>>
    /\ item_list = <<>>
    /\ csv_file = NoFile
    /\ success_log_exists = FALSE
    /\ success_log_df = EmptyDF
    /\ items_df = EmptyDF
    /\ saved = FALSE
    /\ stale_list = <<>>
    /\ dirs = [t \in Titles |-> NoDir]
    /\ zips = [t \in Titles |-> "absent"]
    /\ log_folder = FALSE
    /\ error_log = FALSE
    /\ run_log = FALSE
    /\ i = 1
    /\ run_df = EmptyDF
    /\ faults = 0
    /\ ledger0 = NoFile
    /\ attempted = {}
    /\ raised = {}
    /\ archived = [id \in ItemIds |-> [edit |-> NumNaN, ts |-> NumNaN]]

Init == Idle /\ merge = NoMerge

\* ------------------------------------------------------------- lines 28, 75-79, 151-162
\* an input list that is never taken as empty
empty_input_ignored(csv) == FALSE

\* line 152: len(item_csv) < 1
empty_input(csv) == Len(csv) < 1

StartRun ==
    /\ pc \in {"idle", "done", "crashed", "exited"}
    /\ run < MaxRuns
    /\ \E cfg \in BOOLEAN, csv \in CsvInputs :
        /\ run' = run + 1
        /\ ts_today' = now(run + 1)
        /\ full_backup' = cfg
        /\ item_csv' = csv
        /\ IF empty_input(csv)
           THEN pc' = "exited" /\ item_list' = <<>>
           ELSE pc' = "load" /\ item_list' = chain(csv)
    \* a new date_today names folders and files that do not exist yet
    /\ dirs' = [t \in Titles |-> NoDir]
    /\ zips' = [t \in Titles |-> "absent"]
    /\ success_log_exists' = FALSE
    /\ success_log_df' = EmptyDF
    /\ items_df' = EmptyDF
    /\ saved' = FALSE
    /\ stale_list' = <<>>
    /\ error_log' = FALSE
    /\ run_log' = FALSE
    /\ i' = 1
    /\ run_df' = EmptyDF
    /\ ledger0' = csv_file
    /\ attempted' = {}
    /\ raised' = {}
    /\ UNCHANGED <<merge, archived, titles, csv_file, log_folder, faults>>

\* ------------------------------------------------------------- lines 203-216
LoadLedger ==
    /\ pc = "load"
    /\ \E readable \in BOOLEAN :
        /\ readable => csv_file.exists
        /\ (~readable /\ csv_file.exists) => faults < MaxFaults
        /\ faults' = IF ~readable /\ csv_file.exists THEN faults + 1 ELSE faults
        /\ IF readable
           THEN /\ success_log_df' = read_csv(csv_file)
                /\ success_log_exists' = TRUE
                /\ UNCHANGED full_backup
           ELSE /\ full_backup' = TRUE
                /\ success_log_exists' = FALSE
                /\ UNCHANGED success_log_df
    /\ pc' = "classify"
    /\ UNCHANGED <<merge, archived, run, ts_today, titles, item_csv, item_list, csv_file, items_df,
                   saved, stale_list, dirs, zips, log_folder, error_log, run_log, i,
                   run_df, ledger0, attempted, raised>>

\* ------------------------------------------------------------- lines 219-247
ListedIds == {item_list[p].id : p \in 1..Len(item_list)}

items_frame(edits) ==
    DataFrame(IF item_list = <<>> THEN {} ELSE ItemCols,
        [p \in 1..Len(item_list) |->
            item_info(item_list[p], edits[item_list[p].id][1], edits[item_list[p].id][2])])

\* line 231 or lines 234-237: [raised, df]
merged_log(frame) ==
    IF "item_id" \notin frame.columns
    THEN [raised |-> TRUE, df |-> success_log_df]
    ELSE IF success_log_exists
    THEN LET u == update_df(success_log_df, frame)
         IN [raised |-> u.raised, df |-> u.updated_df]
    ELSE [raised |-> FALSE, df |-> new_success_log(frame)]

Classify ==
    /\ pc = "classify"
    /\ \E edits \in [ListedIds -> LayerInputs \X TableInputs], written \in BOOLEAN :
        \E m \in {merged_log(items_frame(edits))} :
           /\ items_df' = items_frame(edits)
           /\ IF m.raised
              THEN /\ written
                   /\ pc' = "crashed"
                   /\ UNCHANGED <<success_log_df, csv_file, saved, stale_list, faults>>
              ELSE /\ ~written => faults < MaxFaults
                   /\ faults' = IF written THEN faults ELSE faults + 1
                   /\ success_log_df' = m.df
                   /\ csv_file' = export_df(m.df, csv_file, written)
                   /\ saved' = written
                   /\ stale_list' = IF full_backup THEN <<>> ELSE stale_ids(m.df)
                   /\ pc' = "export"
    /\ UNCHANGED <<merge, archived, run, ts_today, full_backup, titles, item_csv, item_list,
                   success_log_exists, dirs, zips, log_folder, error_log, run_log, i,
                   run_df, ledger0, attempted, raised>>

\* ------------------------------------------------------------- lines 252-314
\* what data.replicas.create can do with the working folder: write a sound
\* archive, write a file that is no archive, raise, or raise with a partial
\* file left behind.  Without the folder it can only raise.
ExportOutcomes(dir) ==
    IF dir.exists THEN {"zip", "junk", "error", "partial"} ELSE {"error"}

\* the working folder after the export
exported(dir, out) ==
    IF out = "zip" THEN [dir EXCEPT !.files = Append(@, "zip")]
    ELSE IF out \in {"junk", "partial"} THEN [dir EXCEPT !.files = Append(@, "junk")]
    ELSE dir

export_raised(out) == out \in {"error", "partial"}

\* line 304: os.rmdir raises unless the folder exists and is empty
rmdir_raises(dir) == ~dir.exists \/ dir.files # <<>>

NextItem ==
    IF i = Len(item_list)
    THEN pc' = (IF pc = "export" THEN "move" ELSE "logs") /\ i' = 1
    ELSE pc' = pc /\ i' = i + 1

CreateReplica ==
    /\ pc = "export"
    /\ LET item == item_list[i]
           t == item.title
       IN IF ~in_processing_set(item)
          THEN /\ NextItem
               /\ UNCHANGED <<dirs, log_folder, error_log, faults, attempted, raised>>
          ELSE \E created \in BOOLEAN, log_created \in BOOLEAN :
               LET made == [exists |-> check_create_folder(dirs[t].exists, created),
                            files |-> dirs[t].files]
                   mk_fault == IF ~dirs[t].exists /\ ~created THEN 1 ELSE 0
               IN /\ dirs[t].exists => created
                  /\ \E out \in ExportOutcomes(made) :
                     LET after == exported(made, out)
                         ex_fault == IF made.exists /\ out # "zip" THEN 1 ELSE 0
                         logs == check_create_folder(log_folder, log_created)
                         lg_fault == IF export_raised(out) /\ ~rmdir_raises(after)
                                        /\ ~logs THEN 1 ELSE 0
                     IN /\ faults + mk_fault + ex_fault + lg_fault <= MaxFaults
                        /\ faults' = faults + mk_fault + ex_fault + lg_fault
                        /\ attempted' = attempted \cup {i}
                        /\ IF ~export_raised(out)
                           THEN /\ log_created
                                /\ dirs' = [dirs EXCEPT ![t] = after]
                                /\ NextItem
                                /\ UNCHANGED <<log_folder, error_log, raised>>
                           ELSE /\ raised' = raised \cup {i}
                                /\ IF rmdir_raises(after)
                                   THEN /\ log_created
                                        /\ dirs' = [dirs EXCEPT ![t] = after]
                                        /\ pc' = "crashed"
                                        /\ UNCHANGED <<i, log_folder, error_log>>
                                   ELSE /\ log_folder => log_created
                                        /\ dirs' = [dirs EXCEPT ![t] = NoDir]
                                        /\ log_folder' = logs
                                        /\ IF logs
                                           THEN error_log' = TRUE /\ NextItem
                                           ELSE /\ pc' = "crashed"
                                                /\ UNCHANGED <<i, error_log>>
    /\ UNCHANGED <<merge, archived, run, ts_today, full_backup, titles, item_csv, item_list, csv_file,
                   success_log_exists, success_log_df, items_df, saved, stale_list,
                   zips, run_log, run_df, ledger0>>

\* ------------------------------------------------------------- lines 319-347
\* os.rename of the one listed file: it raises when the folder is missing
\* (os.listdir), empty or holds several files (no such file)
rename_raises(dir) == ~dir.exists \/ Len(dir.files) # 1

MoveItem ==
    /\ pc = "move"
    /\ LET item == item_list[i]
           t == item.title
       IN IF ~in_processing_set(item) \/ rename_raises(dirs[t])
          THEN UNCHANGED <<dirs, zips, faults>>
          ELSE \E removed \in BOOLEAN :
               /\ ~removed => faults < MaxFaults
               /\ faults' = IF removed THEN faults ELSE faults + 1
               /\ zips' = [zips EXCEPT ![t] = dirs[t].files[1]]
               /\ dirs' = [dirs EXCEPT ![t] =
                              IF removed THEN NoDir ELSE [exists |-> TRUE, files |-> <<>>]]
    /\ NextItem
    /\ UNCHANGED <<merge, archived, run, ts_today, full_backup, titles, item_csv, item_list, csv_file,
                   success_log_exists, success_log_df, items_df, saved, stale_list,
                   log_folder, error_log, run_log, run_df, ledger0, attempted, raised>>

\* ------------------------------------------------------------- lines 353-398
check_zip(item) == IF zips[item.title] = "zip" THEN "success" ELSE "fail"

\* the status taken from the verifier whatever the processing set
log_row_always_checked(item) ==
    [item_id |-> item.id,
     item_name |-> item.name,
     item_title |-> item.title,
     zip_path |-> zip_path(item),
     status |-> check_zip(item)]

log_row(item) ==
    [item_id |-> item.id,
     item_name |-> item.name,
     item_title |-> item.title,
     zip_path |-> zip_path(item),
     status |-> IF in_processing_set(item) THEN check_zip(item) ELSE "Backup still fresh"]

create_run_log == [p \in 1..Len(item_list) |-> log_row(item_list[p])]

\* the inserted columns with the timestamp in seconds
with_backup_columns_seconds(df) ==
    DataFrame(df.columns \cup {"backup_date", "backup_ts"},
        [p \in 1..Len(df.rows) |->
            [c \in df.columns \cup {"backup_date", "backup_ts"} |->
                IF c = "backup_date" THEN stamp_to_text(ts_today)
                ELSE IF c = "backup_ts" THEN ts_today \div 1000
                ELSE df.rows[p][c]]])

\* lines 392-393
with_backup_columns(df) ==
    DataFrame(df.columns \cup {"backup_date", "backup_ts"},
        [p \in 1..Len(df.rows) |->
            [c \in df.columns \cup {"backup_date", "backup_ts"} |->
                IF c = "backup_date" THEN stamp_to_text(ts_today)
                ELSE IF c = "backup_ts" THEN ts_today
                ELSE df.rows[p][c]]])

\* a selection that keeps no row
successes_none(df) == DataFrame(df.columns, <<>>)

\* line 394: run_df[run_df['status']=='success']
successes(df) == DataFrame(df.columns, SelectSeq(df.rows, LAMBDA r : r.status = "success"))

ids_of(df) == {df.rows[p].item_id : p \in 1..Len(df.rows)}

rows_of(df, id) == {df.rows[p] : p \in {q \in 1..Len(df.rows) : df.rows[q].item_id = id}}

\* the export of the item was invoked in this run and did not raise
own_export(id) ==
    \E j \in 1..Len(item_list) : item_list[j].id = id /\ j \in attempted \ raised

\* the last edit this run fetched for the item
fetched_edit(id) == (CHOOSE r \in rows_of(items_df, id) : TRUE).last_edit_date_ts

\* what the verified archives hold once check_zip has run: an item with status
\* success has the archive at its canonical path as its last verified archive,
\* which holds the item's data as fetched when the item's own export produced
\* it and nothing of the item otherwise
verified_edits(df) ==
    [id \in ItemIds |->
        IF \E p \in 1..Len(df.rows) : df.rows[p].item_id = id /\ df.rows[p].status = "success"
        THEN [edit |-> IF own_export(id) THEN fetched_edit(id) ELSE NumNaN,
              ts |-> ts_today]
        ELSE archived[id]]

UpdateLogs ==
    /\ pc = "logs"
    /\ \E log_created \in BOOLEAN, log_written \in BOOLEAN, written \in BOOLEAN :
        \E df \in {with_backup_columns(DataFrame(RunCols, create_run_log))} :
        \E u \in {update_df(success_log_df, successes(df))} :
        LET logs == check_create_folder(log_folder, log_created)
            n == (IF ~log_folder /\ ~log_created THEN 1 ELSE 0)
                 + (IF logs /\ ~log_written THEN 1 ELSE 0)
                 + (IF ~u.raised /\ ~written THEN 1 ELSE 0)
        IN /\ log_folder => log_created
           /\ log_written => logs
           /\ u.raised => written
           /\ faults + n <= MaxFaults
           /\ faults' = faults + n
           /\ log_folder' = logs
           /\ run_log' = log_written
           /\ run_df' = df
           /\ archived' = verified_edits(df)
           /\ IF u.raised
              THEN /\ pc' = "crashed"
                   /\ UNCHANGED <<success_log_df, csv_file, saved>>
              ELSE /\ pc' = "done"
                   /\ success_log_df' = u.df
                   /\ csv_file' = export_df(u.df, csv_file, written)
                   /\ saved' = written
    /\ UNCHANGED <<merge, run, ts_today, full_backup, titles, item_csv, item_list,
                   success_log_exists, items_df, stale_list, dirs, zips, error_log, i,
                   ledger0, attempted, raised>>

\* ------------------------------------------------------------- the script
Next ==
    \/ StartRun
    \/ LoadLedger
    \/ Classify
    \/ CreateReplica
    \/ MoveItem
    \/ UpdateLogs

Spec == Init /\ [][Next]_vars

\* ------------------------------------------------------------- update_df on its own
\* update_df (lines 112-125) applied to a ledger and an updating frame, and
\* applied again to the frame it returned with the same updating frame
script_vars == <<pc, run, ts_today, full_backup, titles, item_csv, item_list, csv_file,
                 success_log_exists, success_log_df, items_df, saved, stale_list, dirs,
                 zips, log_folder, error_log, run_log, i, run_df, faults, ledger0,
                 attempted, raised, archived>>

\* a row of the ledger file: backup_ts 0 with the not-yet text, a timestamp with
\* its text and a path, or the three unset
ledger_row(id, bts) ==
    [item_id |-> id, item_name |-> "svc", item_title |-> "T1", url |-> "u",
     updated_ts |-> 100, last_edit_date |-> stamp_to_text(1000),
     last_edit_date_ts |-> 1000,
     backup_date |-> IF bts = NumNaN THEN NaN ELSE IF bts = 0 THEN NotYet
                     ELSE stamp_to_text(bts),
     backup_ts |-> bts,
     zip_path |-> IF bts = NumNaN THEN NaN ELSE IF bts = 0 THEN NotYet ELSE "z"]

\* a row of items_df (the dict item_info returns); the title may be missing
item_row(id, led, title) ==
    [item_id |-> id, item_name |-> "svc", item_title |-> title, url |-> "u",
     updated_ts |-> 100, last_edit_date |-> stamp_to_text(led),
     last_edit_date_ts |-> led]

\* a success row of run_df after lines 392-393
run_row(id) ==
    [item_id |-> id, item_name |-> "svc", item_title |-> "T1", zip_path |-> "z2",
     status |-> "success", backup_date |-> stamp_to_text(2000), backup_ts |-> 2000]

MergeLedgers ==
    {DataFrame(LedgerCols, rows) :
        rows \in SeqsUpTo({ledger_row(id, bts) : id \in ItemIds, bts \in {NumNaN, 0, 1000}},
                          MaxMergeRows)}

MergeIncoming ==
    {DataFrame(ItemCols, rows) :
        rows \in SeqsUpTo({item_row(id, led, title) :
                              id \in ItemIds, led \in {1000, 2000}, title \in {"T1", NaN}},
                          MaxMergeRows)}
    \cup {DataFrame(RunCols \cup {"backup_date", "backup_ts"}, rows) :
        rows \in SeqsUpTo({run_row(id) : id \in ItemIds}, MaxMergeRows)}

MergeInit ==
    /\ Idle
    /\ \E d \in MergeLedgers, u \in MergeIncoming :
          merge = [step |-> "in", df |-> d, updating_df |-> u,
                   once |-> NoResult, twice |-> NoResult]

MergeOnce ==
    /\ merge.step = "in"
    /\ merge' = [merge EXCEPT !.step = "once",
                              !.once = update_df(merge.df, merge.updating_df)]
    /\ UNCHANGED script_vars

\* the frame the first call returned is merged with the same updating frame
MergeTwice ==
    /\ merge.step = "once"
    /\ ~merge.once.raised
    /\ merge' = [merge EXCEPT !.step = "twice",
                              !.twice = update_df(merge.once.updated_df, merge.updating_df)]
    /\ UNCHANGED script_vars

MergeNext ==
    \/ MergeOnce
    \/ MergeTwice

MergeSpec == MergeInit /\ [][MergeNext]_vars

\* ------------------------------------------------------------- vocabulary of the properties
backup_fields(r) == <<r.backup_ts, r.backup_date, r.zip_path>>

unset(r) == r.backup_ts = NumNaN /\ r.backup_date = NaN /\ r.zip_path = NaN

never_backed_up(r) == r.backup_ts = 0 /\ r.backup_date = NotYet /\ r.zip_path = NotYet

Positions == 1..Len(item_list)

Processing == {j \in Positions : in_processing_set(item_list[j])}

Verified == {j \in Positions : j \in Processing /\ check_zip(item_list[j]) = "success"}

\* the input list names no item twice and no two listed items share a title
Distinct ==
    /\ is_unique(item_csv)
    /\ \A j, k \in Positions : item_list[j].title = item_list[k].title => j = k

\* the merged ledger is in memory and the commit has not touched it
Merged == pc \in {"export", "move", "logs"}

\* the row is one the classification merge inserted
IsNew(r) == ~success_log_exists \/ r.item_id \notin ids_of(ledger0.df)

committed(r, item) ==
    /\ r.backup_ts = ts_today
    /\ r.backup_date = stamp_to_text(ts_today)
    /\ r.zip_path = zip_path(item)

\* the backup fields of the item in the ledger file are not those the run found
Changed(id) ==
    \/ \E r0 \in rows_of(ledger0.df, id), r \in rows_of(csv_file.df, id) :
          backup_fields(r) # backup_fields(r0)
    \/ /\ rows_of(ledger0.df, id) = {}
       /\ \E r \in rows_of(csv_file.df, id) : ~unset(r) /\ ~never_backed_up(r)

\* ------------------------------------------------------------- C1
\* C1: in a run over distinct items, when the export of an item raised, once the export loop is over every
\* item of the processing set has had its export attempt; in a finished run
\* every other item whose archive verifies carries this run's values and the
\* item whose export raised has the backup fields it had before the run.
C1_PartialFailureIsolation ==
    (Distinct /\ raised # {} /\ pc \in {"move", "logs", "done", "crashed"}) =>
        /\ Processing \subseteq attempted
        /\ pc = "done" =>
            /\ \A j \in Verified \ raised :
                  \A r \in rows_of(success_log_df, item_list[j].id) :
                      committed(r, item_list[j])
            /\ \A k \in raised :
                  \A r0 \in rows_of(ledger0.df, item_list[k].id),
                     r \in rows_of(csv_file.df, item_list[k].id) :
                      backup_fields(r) = backup_fields(r0)

\* ------------------------------------------------------------- C2
\* C2: in a run whose input list names no item twice, the backup fields of an
\* item in the ledger file differ from those the run found only if the item is in the processing set, its archive verified
\* and its export did not fail.
C2_VerificationGate ==
    \A id \in ItemIds :
        (is_unique(item_csv) /\ Changed(id)) =>
            /\ \E j \in Verified : item_list[j].id = id
            /\ \A j \in Positions : item_list[j].id = id => j \notin raised

\* ------------------------------------------------------------- C3
\* C3: without full-backup mode an item of the merged ledger is in the stale
\* list exactly when its backup_ts is unset or below its last_edit_date_ts;
\* in full-backup mode every listed item is in the processing set, and every
\* item the export loop has passed was exported.
C3_Staleness ==
    Merged =>
        /\ ~full_backup =>
              \A p \in 1..Len(success_log_df.rows) :
                  LET r == success_log_df.rows[p]
                  IN InSeq(r.item_id, stale_list)
                        <=> (r.backup_ts = NumNaN
                             \/ (r.backup_ts # NumNaN
                                 /\ r.backup_ts < r.last_edit_date_ts))
        /\ full_backup =>
              /\ Processing = Positions
              /\ \A j \in Positions : (pc # "export" \/ j < i) => j \in attempted

C3_Witness ==
    /\ pc = "export"
    /\ ~full_backup
    /\ \E r1 \in rows_of(success_log_df, 1), r2 \in rows_of(success_log_df, 2) :
          /\ r1.backup_ts > 0
          /\ r1.backup_ts = r1.last_edit_date_ts
          /\ ~InSeq(1, stale_list)
          /\ r2.backup_ts > 0
          /\ r2.backup_ts < r2.last_edit_date_ts
          /\ InSeq(2, stale_list)

\* ------------------------------------------------------------- C4
\* C4: when the ledger could not be read, full-backup mode is on and, in a run
\* over distinct items, once the export loop is over an export was attempted
\* for every listed item.
C4_LoadFailureForcesFull ==
    (~success_log_exists /\ pc \in {"classify", "export", "move", "logs", "done", "crashed"}) =>
        /\ full_backup
        /\ (Distinct /\ item_list # <<>> /\ pc \in {"move", "logs", "done", "crashed"}) =>
              Positions \subseteq attempted

\* ------------------------------------------------------------- C5
\* C5: after the merge into a loaded ledger every row the ledger had keeps its
\* place, its item_id and its backup fields; its item columns are the fetched
\* ones when the item was fetched in this run and unchanged otherwise.
C5_MergePreservesBackup ==
    (Merged /\ success_log_exists) =>
        \A p \in 1..Len(ledger0.df.rows) :
            LET old == ledger0.df.rows[p]
                new == success_log_df.rows[p]
            IN /\ new.item_id = old.item_id
               /\ backup_fields(new) = backup_fields(old)
               /\ \A c \in ItemCols :
                     new[c] = IF old.item_id \in ids_of(items_df)
                              THEN (CHOOSE f \in rows_of(items_df, old.item_id) : TRUE)[c]
                              ELSE old[c]

C5_Witness ==
    /\ pc = "export"
    /\ success_log_exists
    /\ \E p \in 1..Len(ledger0.df.rows) :
          /\ ledger0.df.rows[p].backup_ts > 0
          /\ ledger0.df.rows[p].last_edit_date_ts # success_log_df.rows[p].last_edit_date_ts
          /\ success_log_df.rows[p].backup_ts = ledger0.df.rows[p].backup_ts

\* ------------------------------------------------------------- C6
\* C6 as stated: every row the merge inserts has backup_ts 0 and the
\* not-yet-backed-up text in backup_date and zip_path, with or without a
\* loaded ledger.
C6_NewItemSentinels ==
    Merged =>
        \A p \in 1..Len(success_log_df.rows) :
            IsNew(success_log_df.rows[p]) => never_backed_up(success_log_df.rows[p])

\* C6 amended: every fetched item has a row after the merge; a row inserted
\* when no ledger was loaded has backup_ts 0 and the not-yet-backed-up text; a
\* row inserted into a loaded ledger has backup_ts, backup_date and zip_path
\* unset.
C6_NewItemUnsetOrSentinel ==
    Merged =>
        /\ ids_of(items_df) \subseteq ids_of(success_log_df)
        /\ \A p \in 1..Len(success_log_df.rows) :
              LET r == success_log_df.rows[p]
              IN IsNew(r) => IF success_log_exists THEN unset(r) ELSE never_backed_up(r)

C6_Witness ==
    /\ pc = "export"
    /\ success_log_exists
    /\ ledger0.df.rows # <<>>
    /\ \E p \in 1..Len(success_log_df.rows) :
          IsNew(success_log_df.rows[p]) /\ unset(success_log_df.rows[p])

\* ------------------------------------------------------------- C7
\* C7: no two rows of the ledger, in memory or in the file, share an item_id.
C7_KeyUniqueness ==
    /\ is_unique(index(success_log_df))
    /\ is_unique(index(csv_file.df))

\* ------------------------------------------------------------- C8
\* C8: every item_id the ledger file held when the run started is in the
\* ledger file after every save of the run.
C8_NeverDeleted == ids_of(ledger0.df) \subseteq ids_of(csv_file.df)

\* ------------------------------------------------------------- C9
\* C9: the backup_ts the ledger file holds for an item is never below the one
\* it held when the run started.
C9_MonotonicBackupTs ==
    \A id \in ItemIds :
        \A r0 \in rows_of(ledger0.df, id), r \in rows_of(csv_file.df, id) :
            r0.backup_ts # NumNaN => r.backup_ts >= r0.backup_ts

\* ------------------------------------------------------------- C10
\* C10 as stated: after a finished run every item with status success has
\* this run's timestamp, its text and this run's archive path in its rows of
\* the in-memory ledger and of the ledger file.
C10_CommitValues ==
    pc = "done" =>
        \A j \in Positions :
            run_df.rows[j].status = "success" =>
                /\ rows_of(success_log_df, item_list[j].id) # {}
                /\ \A r \in rows_of(success_log_df, item_list[j].id) :
                      committed(r, item_list[j])
                /\ rows_of(csv_file.df, item_list[j].id) # {}
                /\ \A r \in rows_of(csv_file.df, item_list[j].id) :
                      committed(r, item_list[j])

\* C10 amended: after a finished run every item with status success has this
\* run's timestamp, its text and this run's archive path in its rows of the
\* in-memory ledger, and in the ledger file when the last write of the ledger
\* succeeded.
C10_CommitValuesWhenSaved ==
    pc = "done" =>
        /\ saved => csv_file = to_csv(success_log_df)
        /\ \A j \in Positions :
              run_df.rows[j].status = "success" =>
                  /\ rows_of(success_log_df, item_list[j].id) # {}
                  /\ \A r \in rows_of(success_log_df, item_list[j].id) :
                        committed(r, item_list[j])

C10_Witness ==
    /\ pc = "done"
    /\ saved
    /\ ~ledger0.exists
    /\ Len(item_list) = 2
    /\ item_list[1].id # item_list[2].id
    /\ \A j \in Positions : run_df.rows[j].status = "success"
    /\ \A j \in Positions :
          \E r \in rows_of(csv_file.df, item_list[j].id) : r.backup_ts = ts_today

\* ------------------------------------------------------------- C11
\* C11 as stated: the run log of a finished run has exactly one entry for
\* every identifier of the input list; its status is the verifier's when the
\* item is in the processing set and the still-fresh text otherwise.
C11_RunLogPerIdentifier ==
    pc = "done" =>
        \A q \in 1..Len(item_csv) :
            /\ Cardinality({p \in 1..Len(run_df.rows) : run_df.rows[p].item_id = item_csv[q]}) = 1
            /\ \A p \in 1..Len(run_df.rows) :
                  run_df.rows[p].item_id = item_csv[q] =>
                      (run_df.rows[p].status \in {"success", "fail"}
                          <=> (full_backup \/ InSeq(item_csv[q], stale_list)))

\* C11 amended: the run log of a finished run has exactly one entry for every
\* item the searches returned, in their order; its status is the verifier's
\* result when the item is in the processing set and the still-fresh text
\* otherwise.  An identifier the searches did not find has no entry.
C11_RunLogPerListedItem ==
    pc = "done" =>
        /\ Len(run_df.rows) = Len(item_list)
        /\ \A j \in Positions :
              /\ run_df.rows[j].item_id = item_list[j].id
              /\ run_df.rows[j].status =
                    IF j \in Processing THEN check_zip(item_list[j]) ELSE "Backup still fresh"
              /\ run_df.rows[j].status \in {"success", "fail"} <=> j \in Processing
        /\ \A p \in 1..Len(run_df.rows) : run_df.rows[p].item_id \in ItemIds

C11_Witness ==
    /\ pc = "done"
    /\ ~full_backup
    /\ Len(item_list) = 2
    /\ \E j, k \in Positions :
          /\ run_df.rows[j].status = "Backup still fresh"
          /\ run_df.rows[k].status = "success"

\* ------------------------------------------------------------- C12
\* C12 as stated: for every ledger and every updating frame, merging the
\* frame into the ledger and merging it again into the result gives the frame
\* the first merge returned (same rows, same cells).
C12_IdempotentMerge ==
    merge.step = "twice" =>
        /\ ~merge.twice.raised
        /\ merge.twice.updated_df = merge.once.updated_df

\* C12 amended: when every column of the updating frame is a column of the
\* ledger, merging the frame again into the result of a merge that did not
\* raise does not raise and gives the same frame, both as the returned frame
\* and as the first argument updated in place.
C12_IdempotentMergeLedgerColumns ==
    (merge.step = "twice" /\ merge.updating_df.columns \subseteq merge.df.columns) =>
        /\ ~merge.twice.raised
        /\ merge.twice.updated_df = merge.once.updated_df
        /\ merge.twice.df = merge.once.updated_df

C12_Witness ==
    /\ merge.step = "twice"
    /\ merge.updating_df.columns \subseteq merge.df.columns
    /\ Len(merge.df.rows) = 1
    /\ Len(merge.updating_df.rows) = 2
    /\ Len(merge.once.updated_df.rows) = 2
    /\ merge.once.updated_df.rows[1] # merge.df.rows[1]
    /\ merge.once.updated_df.rows[1].backup_ts = 1000
    /\ merge.twice.updated_df = merge.once.updated_df

\* ------------------------------------------------------------- C13
\* C13: no two listed items with different identifiers have the same working
\* folder or the same canonical archive path.
C13_WorkingDirExclusive ==
    \A j, k \in Positions :
        item_list[j].id # item_list[k].id =>
            /\ download_path(item_list[j]) # download_path(item_list[k])
            /\ zip_path(item_list[j]) # zip_path(item_list[k])

\* ------------------------------------------------------------- C14
\* C14: a run whose input list has no rows ends at once: the step that reads
\* the list leaves the ledger file and the logs folder as they were, loads no
\* ledger, has no working folder, archive, run log or error log of this run,
\* exports nothing, and the only step that follows is the start of another run.
C14_EmptyInputExits ==
    [][/\ (run' # run /\ item_csv' = <<>>) =>
              /\ pc' = "exited"
              /\ csv_file' = csv_file
              /\ log_folder' = log_folder
              /\ ~success_log_exists' /\ success_log_df' = EmptyDF /\ ~saved'
              /\ \A t \in Titles : dirs'[t] = NoDir /\ zips'[t] = "absent"
              /\ ~run_log' /\ ~error_log'
              /\ attempted' = {} /\ item_list' = <<>>
       /\ pc = "exited" => run' # run]_vars

C14_Witness ==
    /\ pc = "exited"
    /\ item_csv = <<>>
    /\ ledger0.exists
    /\ ledger0.df.rows # <<>>
    /\ csv_file = ledger0
    /\ log_folder

\* ------------------------------------------------------------- C15
\* C15: whether or not the ledger file and the run log file could be written,
\* the classification step ends the run only when the merge raised and
\* otherwise leaves every fetched item in the in-memory ledger and the stale
\* list computed from it; the commit step ends the run only when its merge
\* raised and otherwise leaves this run's values in the in-memory ledger rows
\* of every item whose status is success; the export and move steps do not
\* depend on what was written.
C15_WriteFailureNonFatal ==
    [][/\ (pc = "classify" /\ pc' = "crashed") => merged_log(items_df').raised
       /\ (pc = "classify" /\ pc' # "crashed") =>
              /\ pc' = "export"
              /\ ids_of(items_df') \subseteq ids_of(success_log_df')
              /\ ~full_backup => stale_list' = stale_ids(success_log_df')
       /\ (pc = "logs" /\ pc' = "crashed") =>
              update_df(success_log_df, successes(run_df')).raised
       /\ (pc = "logs" /\ pc' # "crashed") =>
              /\ pc' = "done"
              /\ Len(run_df'.rows) = Len(item_list)
              /\ \A j \in Positions :
                    run_df'.rows[j].status = "success" =>
                        /\ rows_of(success_log_df', item_list[j].id) # {}
                        /\ \A r \in rows_of(success_log_df', item_list[j].id) :
                              committed(r, item_list[j])
       /\ pc \in {"export", "move"} => (saved' = saved /\ csv_file' = csv_file)]_vars

C15_Witness ==
    /\ pc = "done"
    /\ ~saved
    /\ ~ledger0.exists
    /\ csv_file.exists
    /\ \E j \in Positions :
          /\ run_df.rows[j].status = "success"
          /\ \A r \in rows_of(success_log_df, item_list[j].id) : committed(r, item_list[j])
          /\ \A r \in rows_of(csv_file.df, item_list[j].id) : never_backed_up(r)

\* ------------------------------------------------------------- C16
\* C16: when the export of an item raised, the step that handled it leaves no
\* working folder for the item, has written the error record and goes on to
\* the next item (or to the move phase after the last one).
C16_CleanupOnExportFailure ==
    [][(pc = "export" /\ raised' # raised) =>
          /\ ~dirs'[item_list[i].title].exists
          /\ error_log'
          /\ pc' # "crashed"
          /\ (IF i = Len(item_list) THEN pc' = "move" ELSE i' = i + 1)]_vars

\* ------------------------------------------------------------- C17
\* C17: in a run whose input list names no item twice, once the move phase is
\* over every item whose export was invoked and did not raise has a file at
\* its canonical archive path, and its working folder is gone or, when the
\* removal failed, left empty.
C17_MoveOnExportSuccess ==
    (is_unique(item_csv) /\ pc \in {"logs", "done"}) =>
        \A j \in attempted \ raised :
            /\ zips[item_list[j].title] # "absent"
            /\ dirs[item_list[j].title].files = <<>>

\* ------------------------------------------------------------- C18
\* C18: until the commit of a run has written the ledger file, the file has
\* every item it had when the run started, each with the backup_ts,
\* backup_date and zip_path it had then, and the items it did not have carry
\* the never-backed-up or the unset values.
C18_LedgerUntouchedBeforeCommit ==
    pc \in {"load", "classify", "export", "move", "logs", "crashed"} =>
        /\ ids_of(ledger0.df) \subseteq ids_of(csv_file.df)
        /\ \A id \in ItemIds : ~Changed(id)

\* ------------------------------------------------------------- C19
\* edits and runs are on one clock: a fetched last edit that the item's last
\* verified archive does not hold was made after the run of that archive
\* started
OneClock(id) ==
    (archived[id].edit # NumNaN /\ fetched_edit(id) > archived[id].edit) =>
        fetched_edit(id) > archived[id].ts

\* C19: with edits and runs on one clock, in a run without full-backup mode a
\* listed item that is not in the stale list has no edit that its last
\* verified archive does not hold: when a last edit was fetched for it (an
\* item without layers and tables has none), it has a verified archive of its
\* own export and the last edit is not later than the one that archive holds.
C19_NoMissedEdit ==
    (Merged /\ ~full_backup) =>
        \A j \in Positions :
            LET id == item_list[j].id
            IN (~InSeq(id, stale_list) /\ fetched_edit(id) > 0 /\ OneClock(id)) =>
                  /\ archived[id].edit # NumNaN
                  /\ fetched_edit(id) <= archived[id].edit

\* ------------------------------------------------------------- C20
\* C20: when the commit step is over, every item whose run-log status is
\* success has a row in the in-memory ledger, the one handed to the final
\* write, and its rows carry this run's timestamp, its text and this run's
\* archive path.
C20_CommitLosesNoSuccess ==
    (pc \in {"done", "crashed"} /\ run_df # EmptyDF) =>
        \A p \in 1..Len(run_df.rows) :
            run_df.rows[p].status = "success" =>
                /\ rows_of(success_log_df, run_df.rows[p].item_id) # {}
                /\ \A r \in rows_of(success_log_df, run_df.rows[p].item_id) :
                      /\ r.backup_ts = ts_today
                      /\ r.backup_date = stamp_to_text(ts_today)
                      /\ r.zip_path = run_df.rows[p].zip_path

====
